---- MODULE Spec2Model ----
(***************************************************************************)
(* Model of the image request pipeline of services/image_gen.py            *)
(* (generate_post_image and _load_reference_images) together with the      *)
(* configuration of config.py (GEMINI_API_KEY, ensure_dirs).               *)
(*                                                                         *)
(* Python strings and byte strings are sequences (of one-character strings *)
(* and of integers 0..255).  An Optional value is a sequence of length at  *)
(* most one: None is << >> and a present value v is << v >>.               *)
(***************************************************************************)
EXTENDS Integers, Sequences, FiniteSets, TLC

VARIABLES GEMINI_API_KEY, installed, now, files, dirs, pc, issued, named,
          topic, hero_copy, headline, ref_dir, ref_images, response,
          image_bytes, fpath, result, log

vars == << GEMINI_API_KEY, installed, now, files, dirs, pc, issued, named,
           topic, hero_copy, headline, ref_dir, ref_images, response,
           image_bytes, fpath, result, log >>

\* The concurrent invocations of generate_post_image a caller may run.
Procs == {1, 2}

None == << >>
Some(v) == << v >>

Min(a, b) == IF a < b THEN a ELSE b

\* Python slice s[:n].
Take(s, n) == SubSeq(s, 1, Min(n, Len(s)))

----------------------------------------------------------------------------
(* Bounds of the model. *)

\* Largest number of words in a generated topic or hero_copy.
MaxWords == 12
\* Largest number of entries in a reference-image directory.
MaxFiles == 3
\* Largest modification time of a directory entry.
MaxMtime == 3
\* Largest number of parts in a remote response.
MaxParts == 2
\* Last second the clock reaches.
MaxTime == 2

----------------------------------------------------------------------------
(* Strings: str.strip, str.split, str.join, str.isalnum. *)

Whitespace == {" ", "\t"}

RECURSIVE LStrip(_)
LStrip(s) == IF s # << >> /\ Head(s) \in Whitespace THEN LStrip(Tail(s)) ELSE s

RECURSIVE RStrip(_)
RStrip(s) ==
    IF s # << >> /\ s[Len(s)] \in Whitespace
    THEN RStrip(SubSeq(s, 1, Len(s) - 1))
    ELSE s

\* s.strip()
Strip(s) == RStrip(LStrip(s))

RECURSIVE SplitFrom(_, _, _)
SplitFrom(s, cur, acc) ==
    IF s = << >>
    THEN IF cur = << >> THEN acc ELSE Append(acc, cur)
    ELSE IF Head(s) \in Whitespace
         THEN SplitFrom(Tail(s), << >>, IF cur = << >> THEN acc ELSE Append(acc, cur))
         ELSE SplitFrom(Tail(s), Append(cur, Head(s)), acc)

\* s.split(): the maximal runs of non-whitespace characters of s.
Split(s) == SplitFrom(s, << >>, << >>)

RECURSIVE Join(_)
\* " ".join(words)
Join(words) ==
    IF words = << >> THEN << >>
    ELSE IF Len(words) = 1 THEN words[1]
    ELSE words[1] \o << " " >> \o Join(Tail(words))

\* The characters of the model for which c.isalnum() is true.
Alnum == {"a", "b", "c", "x", "y", "0", "1"}

----------------------------------------------------------------------------
(* Headline derivation (image_gen.py lines 72-79). *)

\* Word limit of a headline taken from hero_copy.
HeroWords == 10
\* Word limit of a headline taken from topic.
TopicWords == 8

\* Python truthiness of an Optional[str]: None and "" are false.
Truthy(opt) == opt # None /\ opt[1] # << >>

\* The cut of hero_copy left out.
HeadlineFromHeroUncut(hero) ==
    IF Truthy(hero) /\ Strip(hero[1]) # << >>
    THEN Join(Split(Strip(hero[1])))
    ELSE << >>

HeadlineFromHero(hero) ==
    IF Truthy(hero) /\ Strip(hero[1]) # << >>
    THEN Join(Take(Split(Strip(hero[1])), HeroWords))
    ELSE << >>

\* The fallback to topic taken from its characters, not its words.
DeriveHeadlineChars(t, hero) ==
    LET h == HeadlineFromHero(hero)
    IN  IF h = << >> THEN Take(Strip(t), TopicWords) ELSE h

DeriveHeadline(t, hero) ==
    LET h == HeadlineFromHero(hero)
    IN  IF h = << >> THEN Join(Take(Split(Strip(t)), TopicWords)) ELSE h

----------------------------------------------------------------------------
(* Output file name (image_gen.py lines 152-155). *)

\* Number of characters of topic kept in the file name.
SafeNameLen == 50

SafeChar(c) == IF c \in Alnum \/ c \in {" ", "-", "_"} THEN c ELSE "_"

\* "".join(c if c.isalnum() or c in " -_" else "_" for c in topic[:50])
SafeName(t) == [i \in 1..Min(SafeNameLen, Len(t)) |-> SafeChar(t[i])]

\* The file name without the time.
OutputPathUnstamped(t, clock) == [safe_name |-> SafeName(t), stamp |-> 0]

\* OUTPUT_DIR / f"linkedin_image_{safe_name}_{int(time.time())}.png"
OutputPath(t, clock) == [safe_name |-> SafeName(t), stamp |-> clock]

----------------------------------------------------------------------------
(* Reference images (_load_reference_images, image_gen.py lines 30-51).    *)
(* A directory is [exists, entries]; entries is the order iterdir() lists  *)
(* them in, each [suffix, mtime, decodes, stat_ok].                         *)

supported == {".jpg", ".jpeg", ".png", ".webp"}

\* str.lower() on the suffixes of the model.
Lower(sfx) ==
    CASE sfx = ".JPG" -> ".jpg"
      [] sfx = ".Png" -> ".png"
      [] sfx = ".WEBP" -> ".webp"
      [] sfx = ".JPEG" -> ".jpeg"
      [] OTHER -> sfx

\* The listing with each entry's position, which identifies the file.
Indexed(entries) ==
    [i \in 1..Len(entries) |->
        [idx |-> i, suffix |-> entries[i].suffix, mtime |-> entries[i].mtime,
         decodes |-> entries[i].decodes, stat_ok |-> entries[i].stat_ok]]

RECURSIVE FilterSupported(_)
\* [f for f in images_dir.iterdir() if f.suffix.lower() in supported]
FilterSupported(es) ==
    IF es = << >> THEN << >>
    ELSE IF Lower(Head(es).suffix) \in supported
         THEN << Head(es) >> \o FilterSupported(Tail(es))
         ELSE FilterSupported(Tail(es))

\* Number of leading elements of the descending list acc that e goes after.
RECURSIVE InsertPos(_, _)
InsertPos(acc, e) ==
    IF acc = << >> \/ Head(acc).mtime < e.mtime THEN 0
    ELSE 1 + InsertPos(Tail(acc), e)

InsertDesc(acc, e) ==
    LET k == InsertPos(acc, e)
    IN  SubSeq(acc, 1, k) \o << e >> \o SubSeq(acc, k + 1, Len(acc))

RECURSIVE SortFrom(_, _)
SortFrom(es, acc) ==
    IF es = << >> THEN acc ELSE SortFrom(Tail(es), InsertDesc(acc, Head(es)))

RECURSIVE Reverse(_)
Reverse(es) == IF es = << >> THEN << >> ELSE Append(Reverse(Tail(es)), Head(es))

\* The sort without reverse=True: oldest first.
SortedByMtimeAsc(es) == Reverse(SortFrom(es, << >>))

\* sorted(..., key=lambda x: x.stat().st_mtime, reverse=True): stable.
SortedByMtimeDesc(es) == SortFrom(es, << >>)

RECURSIVE DecodeAll(_)
\* The loop of lines 45-50: an entry whose Image.open fails is skipped.
DecodeAll(es) ==
    IF es = << >> THEN << >>
    ELSE IF Head(es).decodes
         THEN << [src |-> Head(es).idx] >> \o DecodeAll(Tail(es))
         ELSE DecodeAll(Tail(es))

\* _load_reference_images(images_dir, max_count); pil is whether PIL imports.
\* The outcome is a list of images, or an exception of stat() that escapes.
LoadReferenceImages(dir, max_count, pil) ==
    IF ~dir.exists \/ ~pil THEN [raised |-> FALSE, refs |-> << >>]
    ELSE LET cand == FilterSupported(Indexed(dir.entries))
         IN  IF \E i \in 1..Len(cand) : ~cand[i].stat_ok
             THEN [raised |-> TRUE, refs |-> << >>]
             ELSE [raised |-> FALSE,
                   refs |-> DecodeAll(Take(SortedByMtimeDesc(cand), max_count))]

\* max_count passed by generate_post_image (line 92).
RefMaxCount == 2

----------------------------------------------------------------------------
(* base64.b64decode (line 146), as binascii.a2b_base64 decodes: characters *)
(* outside the alphabet are dropped, a complete pad ends the input, and an *)
(* incomplete quad is an error.                                             *)

B64Value(c) ==
    CASE c = "A" -> 0
      [] c = "Q" -> 16
      [] c = "V" -> 21
      [] c = "i" -> 34
      [] OTHER -> 64

RECURSIVE A2B(_, _, _, _, _)
A2B(s, quad, left, pads, out) ==
    IF s = << >> THEN [ok |-> quad = 0, bytes |-> out]
    ELSE LET c == Head(s)
             v == B64Value(c)
         IN  IF c = "="
             THEN IF quad >= 2 /\ quad + pads + 1 >= 4
                  THEN [ok |-> TRUE, bytes |-> out]
                  ELSE A2B(Tail(s), quad, left,
                           IF quad >= 2 THEN pads + 1 ELSE pads, out)
             ELSE IF v >= 64 THEN A2B(Tail(s), quad, left, pads, out)
             ELSE CASE quad = 0 -> A2B(Tail(s), 1, v, 0, out)
                    [] quad = 1 ->
                         A2B(Tail(s), 2, v % 16, 0,
                             Append(out, (left * 4 + (v \div 16)) % 256))
                    [] quad = 2 ->
                         A2B(Tail(s), 3, v % 4, 0,
                             Append(out, (left * 16 + (v \div 4)) % 256))
                    [] OTHER ->
                         A2B(Tail(s), 0, 0, 0,
                             Append(out, (left * 64 + v) % 256))

B64Decode(s) == A2B(s, 0, 0, 0, << >>)

----------------------------------------------------------------------------
(* Images as bytes.  PIL recognises an image by its leading signature; the *)
(* model keeps the first two bytes of the PNG signature.                   *)

PngBytes == << 137, 80 >>

\* PILImage.open(BytesIO(image_bytes)) succeeds (line 157).
IsImage(b) == Len(b) >= 2 /\ b[1] = 137 /\ b[2] = 80

----------------------------------------------------------------------------
(* Response decoding (image_gen.py lines 122-147).                         *)
(* An attribute that may be missing is [tag, items]: tag "absent" when the *)
(* object has no such attribute, "none" when it is None, "list" when it is *)
(* the list items.  A part is [as_image, inline]: as_image is "absent",    *)
(* "fails" (the accessor or the PNG re-encode raises) or "ok"; inline is   *)
(* [tag, data, image_bytes] with tag "absent", "none" or "blob".  A        *)
(* payload is [kind, val] with kind "none", "bytes" or "str".              *)

Absent == [tag |-> "absent", items |-> << >>]
NoneAttr == [tag |-> "none", items |-> << >>]
ListAttr(items) == [tag |-> "list", items |-> items]

NoPayload == [kind |-> "none", val |-> << >>]
BytesPayload(b) == [kind |-> "bytes", val |-> b]
StrPayload(s) == [kind |-> "str", val |-> s]

NoInline == [tag |-> "absent", data |-> NoPayload, image_bytes |-> NoPayload]
NoneInline == [tag |-> "none", data |-> NoPayload, image_bytes |-> NoPayload]
Blob(d, ib) == [tag |-> "blob", data |-> d, image_bytes |-> ib]

\* Python truthiness of a payload: None, b"" and "" are false.
PayloadTruthy(pl) == pl.kind # "none" /\ pl.val # << >>

\* getattr(blob, "data", None) or getattr(blob, "image_bytes", None)
BlobData(blob) == IF PayloadTruthy(blob.data) THEN blob.data ELSE blob.image_bytes

Extracted(b) == [raised |-> FALSE, msg |-> "", image_bytes |-> Some(b)]
NotExtracted == [raised |-> FALSE, msg |-> "", image_bytes |-> None]
ExtractRaised(m) == [raised |-> TRUE, msg |-> m, image_bytes |-> None]

\* Lines 142-147 for one part: "found" tells whether the loop breaks.
InlineStep(part) ==
    IF part.inline.tag = "blob" /\ PayloadTruthy(BlobData(part.inline))
    THEN LET data == BlobData(part.inline)
         IN  IF data.kind = "bytes"
             THEN [found |-> TRUE, out |-> Extracted(data.val)]
             ELSE LET dec == B64Decode(data.val)
                  IN  IF dec.ok
                      THEN [found |-> TRUE, out |-> Extracted(dec.bytes)]
                      ELSE [found |-> TRUE, out |-> ExtractRaised("Incorrect padding")]
    ELSE [found |-> FALSE, out |-> NotExtracted]

\* Lines 133-147 for one part.
PartStep(part) ==
    IF part.as_image = "ok"
    THEN [found |-> TRUE, out |-> Extracted(PngBytes)]
    ELSE InlineStep(part)

RECURSIVE ExtractLoop(_)
\* for part in parts: ... (lines 132-147)
ExtractLoop(parts) ==
    IF parts = << >> THEN NotExtracted
    ELSE LET st == PartStep(Head(parts))
         IN  IF st.found THEN st.out ELSE ExtractLoop(Tail(parts))

\* list(x) of an attribute value: None is not iterable.
ListOf(attr) ==
    IF attr.tag = "list"
    THEN [raised |-> FALSE, msg |-> "", parts |-> attr.items]
    ELSE [raised |-> TRUE, msg |-> "'NoneType' object is not iterable", parts |-> << >>]

NoParts == [raised |-> FALSE, msg |-> "", parts |-> << >>]

\* Lines 124-130: the parts that are searched.
\* A candidate is [content, parts]: content is "absent", "none" or "obj".
ResponseParts(resp) ==
    IF resp.parts.tag # "absent" THEN ListOf(resp.parts)
    ELSE IF resp.candidates.tag = "list" /\ resp.candidates.items # << >>
         THEN LET cand == resp.candidates.items[1]
              IN  IF cand.content = "obj" /\ cand.parts.tag # "absent"
                  THEN ListOf(cand.parts)
                  ELSE NoParts
         ELSE NoParts

\* Lines 123-147: the image bytes extracted from a response.
ExtractImage(resp) ==
    LET ps == ResponseParts(resp)
    IN  IF ps.raised THEN ExtractRaised(ps.msg) ELSE ExtractLoop(ps.parts)

----------------------------------------------------------------------------
(* Configuration (config.py). *)

\* os.getenv("GEMINI_API_KEY", "").strip() (config.py line 16)
LoadApiKey(raw) == Strip(raw)

\* The packages imported lazily (image_gen.py lines 35 and 95-97).
Packages == {"PIL", "genai"}

\* ensure_dirs(): DATA_DIR and OUTPUT_DIR exist afterwards (config.py 26-28).
ensure_dirs(existing) == existing \cup {"data", "output"}

----------------------------------------------------------------------------
(* Inputs. *)

\* Three words taken in turn, so that neighbours differ.
Word(i) ==
    CASE i % 3 = 1 -> << "a" >>
      [] i % 3 = 2 -> << "b", "0" >>
      [] OTHER -> << "c" >>

Blanks(n) == [k \in 1..n |-> IF k % 2 = 1 THEN " " ELSE "\t"]

RECURSIVE WordsFrom(_, _, _)
\* The words Word(i), ..., Word(n), each two separated by gap blanks.
WordsFrom(i, n, gap) ==
    IF i > n THEN << >>
    ELSE IF i = n THEN Word(i)
    ELSE Word(i) \o Blanks(gap) \o WordsFrom(i + 1, n, gap)

Sentence(n, lead, gap, trail) == Blanks(lead) \o WordsFrom(1, n, gap) \o Blanks(trail)

\* Texts of 0..MaxWords words with and without surrounding and repeated blanks.
Texts ==
    { Sentence(n, lead, gap, trail) :
        n \in 0..MaxWords, lead \in 0..1, gap \in 1..2, trail \in 0..2 }

OptionalTexts == {None} \cup { Some(t) : t \in Texts }

Long(c) == [k \in 1..SafeNameLen |-> c]

\* Topics of the pipeline runs: empty, blank, with characters the file name
\* replaces, and longer than the file name keeps.
Topics ==
    { << >>, << " " >>, << "a", " ", "b" >>, << "a", "&" >>, << "a", "!" >>,
      Long("x") \o << "b" >>, Long("x") \o << "c" >> }

HeroCopies == { None, Some(<< >>), Some(<< " " >>), Some(<< "x", " ", "y" >>) }

\* Values of the GEMINI_API_KEY environment variable.
EnvKeys == { << >>, << " " >>, << "k" >> }

Entry(sfx, m, dec) == [suffix |-> sfx, mtime |-> m, decodes |-> dec, stat_ok |-> TRUE]
\* A dangling symbolic link: iterdir lists it, stat fails on it.
Dangling(sfx) == [suffix |-> sfx, mtime |-> 1, decodes |-> FALSE, stat_ok |-> FALSE]

NoDir == [exists |-> FALSE, entries |-> << >>]
Dir(es) == [exists |-> TRUE, entries |-> es]

Suffixes == {".JPG", ".txt"}

Entries == { Entry(sfx, m, dec) : sfx \in Suffixes, m \in 1..MaxMtime, dec \in BOOLEAN }

SeqsUpTo(S, n) == UNION { [1..k -> S] : k \in 0..n }

\* Every directory of at most n entries, and the absent one.
DirsUpTo(n) ==
    {NoDir} \cup { Dir(es) : es \in SeqsUpTo(Entries, n) }
            \cup { Dir(<< Entry(".webp", 1, TRUE), Entry(".JPEG", 2, TRUE),
                          Entry(".WEBP", 3, FALSE), Entry(".jpeg", 3, TRUE) >>),
                   Dir(<< Entry(".png", 1, TRUE), Dangling(".png") >>) }

\* The directories of the pipeline runs.
Dirs ==
    { NoDir,
      Dir(<< Entry(".png", 1, TRUE), Entry(".txt", 2, TRUE), Entry(".JPG", 2, FALSE) >>),
      Dir(<< Dangling(".png") >>) }

\* A valid base64 text of PngBytes, and one whose last quad is incomplete.
B64Png == << "i", "V", "A", "=" >>
B64Cut == << "i", "V" >>

Payloads ==
    { NoPayload, BytesPayload(PngBytes), BytesPayload(<< 0 >>),
      StrPayload(B64Png), StrPayload(B64Cut) }

Inlines ==
    { NoInline, NoneInline }
    \cup { Blob(d, ib) : d \in Payloads, ib \in {NoPayload, BytesPayload(PngBytes)} }

Parts == [as_image : {"absent", "fails", "ok"}, inline : Inlines]

Candidate(content, parts) == [content |-> content, parts |-> parts]

Response(parts, candidates) == [parts |-> parts, candidates |-> candidates]

NoResponse == Response(Absent, Absent)

GoodPart == [as_image |-> "absent", inline |-> Blob(BytesPayload(PngBytes), NoPayload)]

\* Every response of at most n parts, flat or nested under the first
\* candidate, and the shapes without a list of parts.
ResponsesUpTo(n) ==
    { Response(ListAttr(ps), Absent) : ps \in SeqsUpTo(Parts, n) }
    \cup { Response(Absent, ListAttr(<< Candidate("obj", ListAttr(ps)) >>)) :
              ps \in SeqsUpTo(Parts, n) }
    \cup { Response(ListAttr(<< >>), ListAttr(<< Candidate("obj", ListAttr(<< GoodPart >>)) >>)),
           Response(NoneAttr, Absent),
           Response(NoneAttr, ListAttr(<< >>)),
           Response(Absent, Absent),
           Response(Absent, NoneAttr),
           Response(Absent, ListAttr(<< >>)),
           Response(Absent, ListAttr(<< Candidate("absent", Absent) >>)),
           Response(Absent, ListAttr(<< Candidate("none", Absent) >>)),
           Response(Absent, ListAttr(<< Candidate("obj", Absent) >>)),
           Response(Absent, ListAttr(<< Candidate("obj", NoneAttr) >>)),
           Response(Absent, ListAttr(<< Candidate("none", Absent),
                                        Candidate("obj", ListAttr(<< GoodPart >>)) >>)) }

\* The responses of the pipeline runs.
Responses ==
    { Response(ListAttr(<< GoodPart >>), Absent),
      Response(ListAttr(<< [as_image |-> "ok", inline |-> NoInline] >>), Absent),
      Response(ListAttr(<< >>), Absent),
      Response(NoneAttr, Absent),
      Response(Absent, ListAttr(<< Candidate("obj", ListAttr(<< GoodPart >>)) >>)),
      Response(ListAttr(<< [as_image |-> "fails", inline |-> NoneInline] >>), Absent),
      Response(ListAttr(<< [as_image |-> "absent",
                            inline |-> Blob(StrPayload(B64Cut), NoPayload)],
                           GoodPart >>), Absent),
      Response(ListAttr(<< [as_image |-> "absent",
                            inline |-> Blob(BytesPayload(<< 0 >>), NoPayload)] >>), Absent) }

----------------------------------------------------------------------------
(* State.                                                                  *)
(*   GEMINI_API_KEY  the configured key (config.py line 16)                *)
(*   installed       the packages that import: "PIL", "genai"              *)
(*   now             the clock, in seconds: int(time.time())               *)
(*   files           the output directory: path -> the invocations whose   *)
(*                   image was written there, the last one being its       *)
(*                   content                                               *)
(*   dirs            the directories ensure_dirs has created               *)
(*   pc[p]           where invocation p of generate_post_image stands      *)
(*   issued[p]       the second in which invocation p was called           *)
(*   named[p]        the second in which it composed its file name         *)
(*   topic, hero_copy            the arguments of invocation p             *)
(*   headline, ref_dir, ref_images, response, image_bytes, fpath           *)
(*                   its local variables (ref_dir: the directory as read)  *)
(*   result[p]       the pair it returned                                  *)
(*   log[p]          the I/O it performed, in order: "mkdir", "refs",      *)
(*                   "remote" (request sent), "response", "write"          *)
(***************************************************************************)

NoResult == [path |-> None, error |-> None]

Locals(tp, hc) ==
    /\ topic = tp
    /\ hero_copy = hc
    /\ headline = [p \in Procs |-> << >>]
    /\ ref_dir = [p \in Procs |-> NoDir]
    /\ ref_images = [p \in Procs |-> << >>]
    /\ response = [p \in Procs |-> NoResponse]
    /\ image_bytes = [p \in Procs |-> None]
    /\ fpath = [p \in Procs |-> None]
    /\ result = [p \in Procs |-> NoResult]
    /\ named = [p \in Procs |-> 0]

\* One invocation, not yet called; the process is loaded with any key.
Init ==
    /\ \E raw \in EnvKeys : GEMINI_API_KEY = LoadApiKey(raw)
    /\ installed \in SUBSET Packages
    /\ now = 0
    /\ files = << >>
    /\ dirs = {}
    /\ pc = [p \in Procs |-> IF p = 1 THEN "idle" ELSE "off"]
    /\ issued = [p \in Procs |-> 0]
    /\ log = [p \in Procs |-> << >>]
    /\ \E tp \in [Procs -> Topics], hc \in [Procs -> HeroCopies] :
          /\ \A p \in Procs : pc[p] = "off" => tp[p] = << >> /\ hc[p] = None
          /\ Locals(tp, hc)

At(p, label) == pc[p] = label
Goto(p, label) == pc' = [pc EXCEPT ![p] = label]
Logged(p, event) == log' = [log EXCEPT ![p] = Append(@, event)]

\* return path, error
Return(p, path, error) ==
    /\ result' = [result EXCEPT ![p] = [path |-> path, error |-> error]]
    /\ Goto(p, "returned")

\* An exception leaves generate_post_image.
Raise(p) == Goto(p, "raised") /\ UNCHANGED result

\* img.save(str(fpath), format="PNG") by invocation p (line 158).
WriteFile(fs, path, p) ==
    [q \in DOMAIN fs \cup {path} |->
        IF q = path
        THEN (IF path \in DOMAIN fs THEN Append(fs[path], p) ELSE << p >>)
        ELSE fs[q]]

\* The clock advances.
Tick ==
    /\ now < MaxTime
    /\ now' = now + 1
    /\ UNCHANGED << GEMINI_API_KEY, installed, named, files, dirs, pc, issued,
                    topic, hero_copy, headline, ref_dir, ref_images, response,
                    image_bytes, fpath, result, log >>

\* The caller calls generate_post_image.
Invoke(p) ==
    /\ At(p, "idle")
    /\ Goto(p, "start")
    /\ issued' = [issued EXCEPT ![p] = now]
    /\ UNCHANGED << GEMINI_API_KEY, installed, named, now, files, dirs, topic,
                    hero_copy, headline, ref_dir, ref_images, response,
                    image_bytes, fpath, result, log >>

\* A check that is never true of a string.
KeyMissingIsNone(key) == FALSE

\* not GEMINI_API_KEY (line 67)
KeyMissing(key) == key = << >>

\* Lines 67-68.
CheckKey(p) ==
    /\ At(p, "start")
    /\ IF KeyMissing(GEMINI_API_KEY)
       THEN Return(p, None, Some("GEMINI_API_KEY is not set in .env"))
       ELSE Goto(p, "ensure") /\ UNCHANGED result
    /\ UNCHANGED << GEMINI_API_KEY, installed, named, now, files, dirs,
                    issued, topic, hero_copy, headline, ref_dir, ref_images,
                    response, image_bytes, fpath, log >>

\* Line 70: ensure_dirs(), outside any try; mkdir may fail.
EnsureDirs(p) ==
    /\ At(p, "ensure")
    /\ Logged(p, "mkdir")
    /\ \E ok \in BOOLEAN :
          IF ok
          THEN dirs' = ensure_dirs(dirs) /\ Goto(p, "headline") /\ UNCHANGED result
          ELSE UNCHANGED dirs /\ Raise(p)
    /\ UNCHANGED << GEMINI_API_KEY, installed, named, now, files, issued,
                    topic, hero_copy, headline, ref_dir, ref_images, response,
                    image_bytes, fpath >>

\* Lines 72-79.
Headline(p) ==
    /\ At(p, "headline")
    /\ headline' = [headline EXCEPT ![p] = DeriveHeadline(topic[p], hero_copy[p])]
    /\ Goto(p, "refs")
    /\ UNCHANGED << GEMINI_API_KEY, installed, named, now, files, dirs,
                    issued, topic, hero_copy, ref_dir, ref_images, response,
                    image_bytes, fpath, result, log >>

\* Lines 91-92: _load_reference_images, outside any try.
LoadRefs(p, D) ==
    /\ At(p, "refs")
    /\ Logged(p, "refs")
    /\ \E d \in D :
          LET out == LoadReferenceImages(d, RefMaxCount, "PIL" \in installed)
          IN  /\ ref_dir' = [ref_dir EXCEPT ![p] = d]
              /\ IF out.raised
                 THEN UNCHANGED ref_images /\ Raise(p)
                 ELSE /\ ref_images' = [ref_images EXCEPT ![p] = out.refs]
                      /\ Goto(p, "import")
                      /\ UNCHANGED result
    /\ UNCHANGED << GEMINI_API_KEY, installed, named, now, files, dirs,
                    issued, topic, hero_copy, headline, response, image_bytes,
                    fpath >>

\* Lines 94-99: google.genai and PIL are imported.
ImportClient(p) ==
    /\ At(p, "import")
    /\ IF Packages \subseteq installed
       THEN Goto(p, "remote") /\ UNCHANGED result
       ELSE Return(p, None, Some("Install google-genai: pip install google-genai"))
    /\ UNCHANGED << GEMINI_API_KEY, installed, named, now, files, dirs,
                    issued, topic, hero_copy, headline, ref_dir, ref_images,
                    response, image_bytes, fpath, log >>

\* A failed generate_content is tried again.
RemoteCallRetry(p, R) ==
    /\ At(p, "remote")
    /\ \/ /\ Return(p, None, Some("client error"))
          /\ UNCHANGED << response, log >>
       \/ /\ Logged(p, "remote")
          /\ UNCHANGED << pc, result, response >>
       \/ /\ log' = [log EXCEPT ![p] = @ \o << "remote", "response" >>]
          /\ \E r \in R : response' = [response EXCEPT ![p] = r]
          /\ Goto(p, "decode")
          /\ UNCHANGED result
    /\ UNCHANGED << GEMINI_API_KEY, installed, named, now, files, dirs,
                    issued, topic, hero_copy, headline, ref_dir, ref_images,
                    image_bytes, fpath >>

\* Lines 101-120: the client is built and generate_content is called once.
RemoteCall(p, R) ==
    /\ At(p, "remote")
    /\ \/ /\ Return(p, None, Some("client error"))
          /\ UNCHANGED << response, log >>
       \/ /\ Logged(p, "remote")
          /\ Return(p, None, Some("remote error"))
          /\ UNCHANGED response
       \/ /\ log' = [log EXCEPT ![p] = @ \o << "remote", "response" >>]
          /\ \E r \in R : response' = [response EXCEPT ![p] = r]
          /\ Goto(p, "decode")
          /\ UNCHANGED result
    /\ UNCHANGED << GEMINI_API_KEY, installed, named, now, files, dirs,
                    issued, topic, hero_copy, headline, ref_dir, ref_images,
                    image_bytes, fpath >>

\* Lines 122-150.
Decode(p) ==
    /\ At(p, "decode")
    /\ LET ex == ExtractImage(response[p])
       IN  IF ex.raised
           THEN Return(p, None, Some(ex.msg)) /\ UNCHANGED image_bytes
           ELSE /\ image_bytes' = [image_bytes EXCEPT ![p] = ex.image_bytes]
                /\ IF ex.image_bytes = None \/ ex.image_bytes[1] = << >>
                   THEN Return(p, None, Some("No image in Gemini response"))
                   ELSE Goto(p, "name") /\ UNCHANGED result
    /\ UNCHANGED << GEMINI_API_KEY, installed, named, now, files, dirs,
                    issued, topic, hero_copy, headline, ref_dir, ref_images,
                    response, fpath, log >>

\* Lines 152-155: the file name, with the clock as read here.
Name(p) ==
    /\ At(p, "name")
    /\ fpath' = [fpath EXCEPT ![p] = Some(OutputPath(topic[p], now))]
    /\ named' = [named EXCEPT ![p] = now]
    /\ Goto(p, "save")
    /\ UNCHANGED << GEMINI_API_KEY, installed, now, files, dirs, issued,
                    topic, hero_copy, headline, ref_dir, ref_images, response,
                    image_bytes, result, log >>

\* A failed write that still hands the path back.
SaveOutcomeKeepsPath(path, ok) ==
    IF ok THEN [path |-> Some(path), error |-> None]
    ELSE [path |-> Some(path), error |-> Some("write error")]

\* Lines 158-162: (fpath, None) once img.save returned, (None, str(e)) if it raised.
SaveOutcome(path, ok) ==
    IF ok THEN [path |-> Some(path), error |-> None]
    ELSE [path |-> None, error |-> Some("write error")]

\* Lines 157-162: decode the bytes, write the PNG, return.
Save(p) ==
    /\ At(p, "save")
    /\ IF ~IsImage(image_bytes[p][1])
       THEN /\ Return(p, None, Some("cannot identify image file"))
            /\ UNCHANGED << files, log >>
       ELSE /\ Logged(p, "write")
            /\ \E ok \in BOOLEAN :
                  LET out == SaveOutcome(fpath[p][1], ok)
                  IN  /\ files' = IF ok THEN WriteFile(files, fpath[p][1], p) ELSE files
                      /\ Return(p, out.path, out.error)
    /\ UNCHANGED << GEMINI_API_KEY, installed, named, now, dirs, issued,
                    topic, hero_copy, headline, ref_dir, ref_images, response,
                    image_bytes, fpath >>

\* One step of invocation p; D and R are the reference directories and the
\* remote responses it may meet.
Step(p, D, R) ==
    \/ Invoke(p)
    \/ CheckKey(p)
    \/ EnsureDirs(p)
    \/ Headline(p)
    \/ LoadRefs(p, D)
    \/ ImportClient(p)
    \/ RemoteCall(p, R)
    \/ Decode(p)
    \/ Name(p)
    \/ Save(p)

Next == Tick \/ \E p \in Procs : Step(p, Dirs, Responses)

Spec == Init /\ [][Next]_vars

----------------------------------------------------------------------------
(* Headline derivation on its own: invocation 1 stands at line 72, with    *)
(* every topic and hero_copy of Texts.                                     *)

InitHeadline ==
    /\ GEMINI_API_KEY = LoadApiKey(<< "k" >>)
    /\ installed = Packages
    /\ now = 0
    /\ files = << >>
    /\ dirs = ensure_dirs({})
    /\ pc = [p \in Procs |-> IF p = 1 THEN "headline" ELSE "off"]
    /\ issued = [p \in Procs |-> 0]
    /\ log = [p \in Procs |-> IF p = 1 THEN << "mkdir" >> ELSE << >>]
    /\ \E t \in Texts, h \in OptionalTexts :
          Locals([p \in Procs |-> IF p = 1 THEN t ELSE << >>],
                 [p \in Procs |-> IF p = 1 THEN h ELSE None])

NextHeadline == \E p \in Procs : Headline(p)

SpecHeadline == InitHeadline /\ [][NextHeadline]_vars

----------------------------------------------------------------------------
(* Reference-image loading on its own: invocation 1 stands at line 91 and  *)
(* meets every directory of at most MaxFiles entries.                      *)

InitRefs ==
    /\ GEMINI_API_KEY = LoadApiKey(<< "k" >>)
    /\ installed \in { Packages, {"genai"} }
    /\ now = 0
    /\ files = << >>
    /\ dirs = ensure_dirs({})
    /\ pc = [p \in Procs |-> IF p = 1 THEN "refs" ELSE "off"]
    /\ issued = [p \in Procs |-> 0]
    /\ log = [p \in Procs |-> IF p = 1 THEN << "mkdir" >> ELSE << >>]
    /\ topic = [p \in Procs |-> IF p = 1 THEN << "a" >> ELSE << >>]
    /\ hero_copy = [p \in Procs |-> None]
    /\ headline = [p \in Procs |-> DeriveHeadline(topic[p], hero_copy[p])]
    /\ ref_dir = [p \in Procs |-> NoDir]
    /\ ref_images = [p \in Procs |-> << >>]
    /\ response = [p \in Procs |-> NoResponse]
    /\ image_bytes = [p \in Procs |-> None]
    /\ fpath = [p \in Procs |-> None]
    /\ result = [p \in Procs |-> NoResult]
    /\ named = [p \in Procs |-> 0]

NextRefs == \E p \in Procs : LoadRefs(p, DirsUpTo(MaxFiles))

SpecRefs == InitRefs /\ [][NextRefs]_vars

----------------------------------------------------------------------------
(* Response decoding on its own: invocation 1 stands at line 101, without  *)
(* reference images, and meets every response of at most MaxParts parts.   *)

InitDecode ==
    /\ GEMINI_API_KEY = LoadApiKey(<< "k" >>)
    /\ installed = Packages
    /\ now = 0
    /\ files = << >>
    /\ dirs = ensure_dirs({})
    /\ pc = [p \in Procs |-> IF p = 1 THEN "remote" ELSE "off"]
    /\ issued = [p \in Procs |-> 0]
    /\ log = [p \in Procs |-> IF p = 1 THEN << "mkdir", "refs" >> ELSE << >>]
    /\ topic = [p \in Procs |-> IF p = 1 THEN << "a" >> ELSE << >>]
    /\ hero_copy = [p \in Procs |-> None]
    /\ headline = [p \in Procs |-> DeriveHeadline(topic[p], hero_copy[p])]
    /\ ref_dir = [p \in Procs |-> NoDir]
    /\ ref_images = [p \in Procs |-> << >>]
    /\ response = [p \in Procs |-> NoResponse]
    /\ image_bytes = [p \in Procs |-> None]
    /\ fpath = [p \in Procs |-> None]
    /\ result = [p \in Procs |-> NoResult]
    /\ named = [p \in Procs |-> 0]

NextDecode ==
    \E p \in Procs : RemoteCall(p, ResponsesUpTo(MaxParts)) \/ Decode(p) \/ Name(p) \/ Save(p)

SpecDecode == InitDecode /\ [][NextDecode]_vars

----------------------------------------------------------------------------
(* Two concurrent invocations, called at any seconds of the clock.         *)

ConcTopics == { << "a", "&" >>, << "a", "!" >>, << "b" >> }

ConcDirs == { NoDir, Dir(<< Dangling(".png") >>) }

ConcResponses ==
    { Response(ListAttr(<< GoodPart >>), Absent), Response(ListAttr(<< >>), Absent) }

InitConc ==
    /\ \E raw \in { << >>, << "k" >> } : GEMINI_API_KEY = LoadApiKey(raw)
    /\ installed \in { Packages, {"PIL"} }
    /\ now = 0
    /\ files = << >>
    /\ dirs = {}
    /\ pc = [p \in Procs |-> "idle"]
    /\ issued = [p \in Procs |-> 0]
    /\ log = [p \in Procs |-> << >>]
    /\ \E tp \in [Procs -> ConcTopics] : Locals(tp, [p \in Procs |-> None])

NextConc == Tick \/ \E p \in Procs : Step(p, ConcDirs, ConcResponses)

SpecConc == InitConc /\ [][NextConc]_vars

----------------------------------------------------------------------------
(* Properties. *)

Returned(p) == pc[p] = "returned"

Count(sq, e) == Cardinality({ i \in 1..Len(sq) : sq[i] = e })

IsPrefix(a, b) == Len(a) <= Len(b) /\ \A i \in 1..Len(a) : a[i] = b[i]

HasInk(s) == \E i \in 1..Len(s) : s[i] \notin Whitespace

\* No blank at either end, and every blank a single space between two words.
SingleSpaced(s) ==
    \A i \in 1..Len(s) :
        s[i] \in Whitespace =>
            /\ s[i] = " "
            /\ 1 < i /\ i < Len(s)
            /\ s[i - 1] \notin Whitespace /\ s[i + 1] \notin Whitespace

\* C1: generate_post_image never ends by raising: no invocation is ever left
\* by an exception, whatever step fails.
C1_NeverRaises == \A p \in Procs : pc[p] # "raised"

\* C2: every returned result is two-armed: exactly one of path and error is
\* not None, and a returned path is a file this invocation wrote.
C2_TwoArmed ==
    \A p \in Procs :
        Returned(p) =>
            /\ (result[p].path = None) # (result[p].error = None)
            /\ result[p].path # None =>
                  /\ result[p].path[1] \in DOMAIN files
                  /\ \E i \in 1..Len(files[result[p].path[1]]) :
                        files[result[p].path[1]][i] = p
                  /\ Count(log[p], "write") = 1

\* An invocation returned the path of the file it wrote, with no error.
C2_Witness ==
    /\ Returned(1) /\ result[1].path # None /\ result[1].error = None
    /\ result[1].path[1] \in DOMAIN files

\* C3: with an empty API key the invocation returns the configuration error
\* as its first step: nothing was created, listed, read, built or called.
C3_EmptyKeyFirst ==
    \A p \in Procs :
        GEMINI_API_KEY = << >> /\ pc[p] \notin {"off", "idle", "start"} =>
            /\ Returned(p)
            /\ result[p] = [path |-> None,
                            error |-> Some("GEMINI_API_KEY is not set in .env")]
            /\ log[p] = << >>
            /\ dirs = {} /\ files = << >>
            /\ ref_dir[p] = NoDir /\ ref_images[p] = << >>
            /\ response[p] = NoResponse

\* An invocation with an empty key has returned.
C3_Witness == GEMINI_API_KEY = << >> /\ Returned(1) /\ result[1].path = None

\* C4 as stated: for every non-empty hero_copy, blank ones included, the
\* headline has at most 10 words and its words are a prefix of hero_copy's.
C4_Original ==
    \A p \in Procs :
        pc[p] = "refs" /\ hero_copy[p] # None /\ hero_copy[p][1] # << >> =>
            /\ Len(Split(headline[p])) <= 10
            /\ IsPrefix(Split(headline[p]), Split(hero_copy[p][1]))

\* C4 amended: for every hero_copy with a non-blank character the headline
\* has at most 10 words and its words are a prefix of hero_copy's; for a
\* hero_copy of blanks only, the headline has at most 8 words and they are a
\* prefix of topic's words.
C4_HeadlineFromHero ==
    \A p \in Procs :
        pc[p] = "refs" /\ hero_copy[p] # None /\ hero_copy[p][1] # << >> =>
            IF HasInk(hero_copy[p][1])
            THEN /\ Len(Split(headline[p])) <= 10
                 /\ IsPrefix(Split(headline[p]), Split(hero_copy[p][1]))
            ELSE /\ Len(Split(headline[p])) <= 8
                 /\ IsPrefix(Split(headline[p]), Split(topic[p]))

\* A hero_copy of more than 10 words was cut to a headline of exactly 10.
C4_Witness ==
    /\ pc[1] = "refs" /\ hero_copy[1] # None
    /\ Len(Split(hero_copy[1][1])) > 10
    /\ Len(Split(headline[1])) = 10

\* C5 as stated: the headline is non-empty whenever topic is non-empty.
C5_Original ==
    \A p \in Procs : pc[p] = "refs" /\ topic[p] # << >> => headline[p] # << >>

\* C5 amended: the headline is non-empty whenever topic has a non-blank
\* character; and when hero_copy is absent, empty or blank, the headline is
\* the first 8 words of topic joined by single spaces.
C5_HeadlineNonEmpty ==
    \A p \in Procs :
        pc[p] = "refs" =>
            /\ HasInk(topic[p]) => headline[p] # << >>
            /\ (hero_copy[p] = None \/ ~HasInk(hero_copy[p][1])) =>
                  /\ Split(headline[p]) = Take(Split(topic[p]), 8)
                  /\ SingleSpaced(headline[p])

\* A topic of more than 8 words gave, without hero_copy, a headline of 8.
C5_Witness ==
    /\ pc[1] = "refs" /\ hero_copy[1] = None
    /\ Len(Split(topic[1])) > 8
    /\ Len(Split(headline[1])) = 8

\* The suffixes of the model that are supported, whatever their case.
SupportedSuffix(sfx) ==
    sfx \in {".jpg", ".JPG", ".jpeg", ".JPEG", ".png", ".Png", ".webp", ".WEBP"}

SupportedIdx(es) == { i \in 1..Len(es) : SupportedSuffix(es[i].suffix) }

Sources(refs) == { refs[k].src : k \in 1..Len(refs) }

\* C6: _load_reference_images(dir, 2) returns at most 2 images, each decoded
\* from one of the 2 most recently modified supported files, newest first;
\* a file that fails to decode is dropped and no older file takes its place;
\* an absent directory gives no image.
C6_ReferenceImages ==
    \A p \in Procs :
        pc[p] = "import" =>
            LET es == ref_dir[p].entries
                refs == ref_images[p]
                sup == SupportedIdx(es)
            IN  /\ Len(refs) <= 2
                /\ \A k \in 1..Len(refs) :
                      /\ refs[k].src \in sup
                      /\ es[refs[k].src].decodes
                      /\ Cardinality({ j \in sup :
                            es[j].mtime > es[refs[k].src].mtime }) < 2
                /\ \A k, l \in 1..Len(refs) :
                      k < l => /\ es[refs[k].src].mtime >= es[refs[l].src].mtime
                               /\ refs[k].src # refs[l].src
                /\ ref_dir[p].exists /\ "PIL" \in installed =>
                      \E S \in SUBSET sup :
                          /\ Cardinality(S) = Min(2, Cardinality(sup))
                          /\ \A i \in S, j \in sup \ S : es[i].mtime >= es[j].mtime
                          /\ Sources(refs) = { i \in S : es[i].decodes }
                /\ ~ref_dir[p].exists => refs = << >>

\* Of three supported files the newer two were chosen, one of them failed to
\* decode, and the older decodable file was not loaded in its place.
C6_Witness ==
    /\ pc[1] = "import"
    /\ Len(ref_images[1]) = 1
    /\ Cardinality(SupportedIdx(ref_dir[1].entries)) >= 3
    /\ \E i \in SupportedIdx(ref_dir[1].entries) :
          /\ ref_dir[1].entries[i].decodes
          /\ i \notin Sources(ref_images[1])
          /\ ref_dir[1].entries[i].mtime
                < ref_dir[1].entries[ref_images[1][1].src].mtime

\* The parts a response offers: its direct list, else the list under the
\* first candidate's content.
Offered(resp) ==
    IF resp.parts.tag = "list" THEN resp.parts.items
    ELSE IF /\ resp.parts.tag = "absent"
            /\ resp.candidates.tag = "list" /\ resp.candidates.items # << >>
            /\ resp.candidates.items[1].content = "obj"
            /\ resp.candidates.items[1].parts.tag = "list"
         THEN resp.candidates.items[1].parts.items
         ELSE << >>

\* The usable image bytes of a part: from the accessor, else from the inline
\* payload, raw or base64-decoded; None when it carries no usable image.
UsableImage(part) ==
    IF part.as_image = "ok" THEN Some(PngBytes)
    ELSE IF part.inline.tag # "blob" THEN None
    ELSE LET d == IF part.inline.data.kind # "none" /\ part.inline.data.val # << >>
                  THEN part.inline.data ELSE part.inline.image_bytes
         IN  IF d.kind = "bytes" /\ IsImage(d.val) THEN Some(d.val)
             ELSE IF d.kind = "str" /\ d.val # << >> /\ B64Decode(d.val).ok
                     /\ IsImage(B64Decode(d.val).bytes)
                  THEN Some(B64Decode(d.val).bytes)
                  ELSE None

RECURSIVE FirstUsable(_)
FirstUsable(parts) ==
    IF parts = << >> THEN None
    ELSE IF UsableImage(Head(parts)) # None THEN UsableImage(Head(parts))
    ELSE FirstUsable(Tail(parts))

\* C7: whenever a part of the response carries a usable image, the bytes
\* extracted are those of the first such part, and no error is reported for
\* an unusable part before it.
C7_FirstUsablePart ==
    \A p \in Procs :
        /\ pc[p] \in {"name", "save", "returned"}
        /\ Count(log[p], "response") = 1
        /\ FirstUsable(Offered(response[p])) # None
        => image_bytes[p] = FirstUsable(Offered(response[p]))

\* A response without a part that has a working accessor or non-empty inline
\* data.
NoImagePart(resp) ==
    \A i \in 1..Len(Offered(resp)) :
        LET part == Offered(resp)[i]
        IN  /\ part.as_image # "ok"
            /\ ~(/\ part.inline.tag = "blob"
                 /\ \/ part.inline.data.kind # "none" /\ part.inline.data.val # << >>
                    \/ /\ part.inline.image_bytes.kind # "none"
                       /\ part.inline.image_bytes.val # << >>)

\* C8: when the remote call succeeded and the response has no image-bearing
\* part, the invocation returns (None, "No image in Gemini response") and
\* touches no file of the output directory.
C8_NoImageMessage ==
    \A p \in Procs :
        /\ Count(log[p], "response") = 1
        /\ pc[p] # "decode"
        /\ NoImagePart(response[p])
        => /\ Returned(p)
           /\ result[p] = [path |-> None,
                           error |-> Some("No image in Gemini response")]
           /\ Count(log[p], "write") = 0
           /\ files = << >>

Before(sq, a, b) ==
    \A i, j \in 1..Len(sq) : sq[i] = a /\ sq[j] = b => i < j

\* The remote call comes after the reference images were loaded and before
\* any write, and neither happens without what precedes it.
CallOrder(p) ==
    /\ Before(log[p], "refs", "remote")
    /\ Before(log[p], "remote", "write")
    /\ Count(log[p], "remote") > 0 => Count(log[p], "refs") = 1
    /\ Count(log[p], "write") > 0 => Count(log[p], "remote") = 1

Succeeded(p) == Returned(p) /\ result[p].path # None

Untouched(p, q) ==
    /\ result[p].path # result[q].path
    /\ files[result[p].path[1]] = << p >>
    /\ files[result[q].path[1]] = << q >>

\* C10 as stated: two successful invocations return the same path only if
\* their sanitized topics are equal and they were called in the same second;
\* otherwise their paths differ and neither overwrote the other's file.
C10_Original ==
    \A p, q \in Procs :
        p # q /\ Succeeded(p) /\ Succeeded(q) =>
            IF SafeName(topic[p]) = SafeName(topic[q]) /\ issued[p] = issued[q]
            THEN TRUE
            ELSE Untouched(p, q)

\* C10 amended: two successful invocations return the same path only if
\* their sanitized topics are equal and they composed their file names,
\* after their remote calls, in the same second; otherwise their paths
\* differ and neither overwrote the other's file.
C10_SamePathSameSecond ==
    \A p, q \in Procs :
        p # q /\ Succeeded(p) /\ Succeeded(q) =>
            IF SafeName(topic[p]) = SafeName(topic[q]) /\ named[p] = named[q]
            THEN TRUE
            ELSE Untouched(p, q)

\* Two invocations called in different seconds, with different topics, named
\* their files in the same second and the later write replaced the earlier.
C10_Witness ==
    /\ Succeeded(1) /\ Succeeded(2)
    /\ issued[1] # issued[2] /\ named[1] = named[2]
    /\ topic[1] # topic[2]
    /\ result[1].path = result[2].path
    /\ Len(files[result[1].path[1]]) = 2

====
